---- MODULE Spec2Model ----
(***************************************************************************)
(* Recorder / Player / _Player of aitk.robots (watchers.py): the state     *)
(* log, the mirror world that Recorder.goto rebuilds, the Player's slider  *)
(* cursor and the background playback thread.                              *)
(*                                                                         *)
(* Time values are integers counting hundredths of a time unit, so the     *)
(* source's 0.1 is Step == 10 and a slider value v tenths is 10 * v.       *)
(* The times save_as computes are floats, kept with their exact distance   *)
(* from the multiple of 0.1 they are next to.                              *)
(*                                                                         *)
(* Spec is the program with every call run from start to end; SpecOps the  *)
(* same with save_as and a standing world; SpecGoto and SpecSave apply     *)
(* Recorder.goto and Recorder.save_as to every input; SpecConc runs the    *)
(* calls statement by statement on two threads.                            *)
(***************************************************************************)
EXTENDS Integers, Sequences, FiniteSets, TLC

VARIABLES
    states,         \* Recorder.states: the log, a sequence of records
    orig_robots,    \* Recorder.orig_world._robots: the live robots
    world,          \* Recorder.world: the mirror world goto() rebuilds
    length,         \* Player.length
    slider_value,   \* Player.control_slider.value (hundredths)
    slider_max,     \* Player.control_slider.max (hundredths)
    position_text,  \* Player.position_text.value (hundredths)
    description,    \* Player.button_play.description: "Play" or "Stop"
    can_run,        \* _Player.can_run: the run signal (threading.Event)
    displayers,     \* TRUE once Player.initialize has set self.displayers
    frames,         \* per thread: where it is in its code, with its locals
    last            \* the last completed top-level call: its name, inputs
                    \* and what it did besides its writes

vars == <<states, orig_robots, world, length, slider_value, slider_max,
          position_text, description, can_run, displayers, frames, last>>

----------------------------------------------------------------------------
(* Bounds of the model *)

MaxLen == 3         \* longest log the Recorder grows
MaxGotoLen == 4     \* longest log Recorder.goto is tried on by itself
MaxConcLen == 2     \* longest log of the statement-by-statement runs
MaxPose == 1        \* the live robots take poses 0 .. MaxPose
MaxBefore == 30     \* Recorder.goto is given times from -MaxBefore (hundredths)
MaxTime == 50       \* ... up to MaxTime (hundredths)
MaxSave == 4        \* save_as is given start and stop from -0.1 to MaxSave * 0.1
MaxStride == 2      \* ... and step from -MaxStride * 0.1 to MaxStride * 0.1
MaxFrames == 8      \* the length of the list frames is exact up to MaxFrames

MinTime == 0 - MaxBefore

(* Program constants *)

Step == 10          \* the 0.1 of round(time / 0.1) and length * 0.1
NumRobots == 2      \* len(orig_world._robots)
max_trace_length == 1

Robots == 1 .. NumRobots

----------------------------------------------------------------------------
(* Numbers *)

Max(a, b) == IF a >= b THEN a ELSE b
Min(a, b) == IF a <= b THEN a ELSE b

(* Python's round(num / den) to an integer: nearest, ties to the even one. *)
RoundHalfUp(num, den) == (2 * num + den) \div (2 * den)
RoundHalfEven(num, den) ==
    LET q == num \div den
        r == num % den
    IN  IF 2 * r < den THEN q
        ELSE IF 2 * r > den THEN q + 1
        ELSE IF q % 2 = 0 THEN q ELSE q + 1

(* round(x, 1): the nearest multiple of 0.1, as hundredths *)
Round1(x) == Step * RoundHalfEven(x, Step)

(* The time values Recorder.goto is given here: the multiples of 0.1, the  *)
(* values 0.02 above and 0.02 below one, and the multiples of 0.25.  The   *)
(* last are the ties of round(time / 0.1) that binary floating point keeps *)
(* exact (0.25 / 0.1 is 2.5, while 0.15 / 0.1 is 1.4999999999999998).      *)
TimeValues == {t \in MinTime .. MaxTime : t % Step \in {0, 2, 8} \/ t % 25 = 0}

----------------------------------------------------------------------------
(* The live world and the log *)

(* the tuple (x, y, a, vx, vy, va, stalled) of robot i at pose n *)
Snapshot(n, i) == <<n, 10 * i, 20 + n, 30 + n, 40 + i, 50 + n, n % 2 = 1>>

(* what one tick of the simulation can make of the live robots *)
LiveRobots == {[i \in Robots |-> Snapshot(n, i)] : n \in 0 .. MaxPose}

RECURSIVE LogsOfLen(_)
LogsOfLen(n) ==
    IF n = 0 THEN {<<>>}
    ELSE {Append(l, r) : l \in LogsOfLen(n - 1), r \in LiveRobots}

Logs == UNION {LogsOfLen(n) : n \in 0 .. MaxGotoLen}

(* Robot.do_trace of the mirror robots: robot 1 draws its trace *)
do_trace(i) == i % 2 = 1

----------------------------------------------------------------------------
(* The float arithmetic of save_as and arange.  start, stop and step are   *)
(* decimal literals with one digit after the point, and every value the    *)
(* export computes from them lies within a few units in the last place of  *)
(* a multiple of 0.1.  Such a float is kept as t, the multiple of 0.1 in   *)
(* hundredths, and e, its exact distance from t/100 counted in fifths of   *)
(* 2^-56: the float is t/100 + e * 2^-56 / 5.  Every double between 1/16   *)
(* and 2 is a multiple of 2^-56, and 2^55 = 128 modulo 160.                *)

Float(t, e) == [t |-> t, e |-> e]

Abs(n) == IF n < 0 THEN 0 - n ELSE n

(* the spacing of the doubles around the value, in units of 2^-56: 1 in    *)
(* [1/16, 1/8), doubling with each binade up to 16 in [1, 2); differences  *)
(* that land next to 0 are exact                                           *)
DoubleGrid(k, e) ==
    LET a == Abs(k)
        below == IF k < 0 THEN e > 0 ELSE e < 0
    IN  CASE a = 0 -> 0
          [] a = 1 -> 1
          [] a = 2 -> 2
          [] a \in 3 .. 4 -> 4
          [] a = 5 -> IF below THEN 4 ELSE 8
          [] a \in 6 .. 9 -> 8
          [] a = 10 -> IF below THEN 8 ELSE 16
          [] OTHER -> 16

(* round to nearest double, ties to the even mantissa *)
RoundToDouble(k, e) ==
    LET g == DoubleGrid(k, e)
    IN  IF g = 0 THEN Float(k * Step, e)
        ELSE LET v == (128 * k + e) % (10 * g)
                 r == v % (5 * g)
                 up == 2 * r > 5 * g \/ (2 * r = 5 * g /\ v >= 5 * g)
             IN  Float(k * Step, IF up THEN e + 5 * g - r ELSE e - r)

(* the double a literal such as 0.3 denotes; t is in hundredths *)
Literal(t) == RoundToDouble(t \div Step, 0)

(* x + y, and n * x for an int n *)
FloatAdd(x, y) == RoundToDouble((x.t + y.t) \div Step, x.e + y.e)
FloatTimes(n, x) == RoundToDouble(n * (x.t \div Step), n * x.e)

(* x <= y and min(x, y) *)
FloatLeq(x, y) == x.t < y.t \/ (x.t = y.t /\ x.e <= y.e)
FloatMin(x, y) == IF FloatLeq(y, x) /\ ~(x.t = y.t /\ x.e = y.e) THEN y ELSE x

----------------------------------------------------------------------------
(* Recorder.goto and Recorder.get_trace.  Indices are the source's, from   *)
(* 0; the log is a TLA+ sequence, so states[index] of the source is        *)
(* log[index + 1] here.                                                    *)

(* seq[lo : hi] of Python for 0 <= lo: never raises, stops at the end, and *)
(* counts a negative hi from the end                                       *)
Slice(seq, lo, hi) ==
    SubSeq(seq, lo + 1, IF hi < 0 THEN Max(hi + Len(seq), 0) ELSE Min(hi, Len(seq)))

(* seq[index] of Python: IndexError unless -len <= index < len, and a      *)
(* negative index counts from the end                                      *)
InList(index, n) == (0 - n) <= index /\ index < n
Item(seq, index) == seq[(IF index < 0 THEN Len(seq) + index ELSE index) + 1]

(* index = round(time / 0.1) *)
GotoIndexHalfUp(time) == RoundHalfUp(time, Step)
GotoIndex(time) == RoundHalfEven(time, Step)

(* index = max(min(len(self.states) - 1, index), 0) *)
ClampIndexNoCeiling(index, n) == Max(index, 0)
ClampIndex(index, n) == Max(Min(n - 1, index), 0)

(* [(Point(x, y), a) for ... in self.states[start_index : current_index + 1]] *)
get_traceShort(log, robot_index, current_index, max_length) ==
    LET start_index == Max(current_index - max_length + 1, 0)
        window == Slice(log, start_index, current_index + 1)
    IN  [j \in 1 .. Len(window) |->
            <<<<window[j][robot_index][1], window[j][robot_index][2]>>,
              window[j][robot_index][3]>>]
get_trace(log, robot_index, current_index, max_length) ==
    LET start_index == Max(current_index - max_length, 0)
        window == Slice(log, start_index, current_index + 1)
    IN  [j \in 1 .. Len(window) |->
            <<<<window[j][robot_index][1], window[j][robot_index][2]>>,
              window[j][robot_index][3]>>]

(* _set_pose(x, y, a, clear_trace=False) and the four assignments after it *)
ApplySnapshot(robot, state) ==
    [robot EXCEPT !.x = state[1], !.y = state[2], !.a = state[3],
                  !.vx = state[4], !.vy = state[5], !.va = state[6],
                  !.stalled = state[7]]

(* the branch of goto for an empty log: copy the live robots, empty traces *)
MirrorLiveKeepTrace(w, orig) ==
    [w EXCEPT !.robots = [i \in Robots |-> ApplySnapshot(w.robots[i], orig[i])]]
MirrorLive(w, orig) ==
    [w EXCEPT !.robots =
        [i \in Robots |-> [ApplySnapshot(w.robots[i], orig[i])
                              EXCEPT !.trace = <<>>]]]

(* the branch of goto for a non-empty log, index already clamped *)
MirrorRecordGrowTrace(w, log, index) ==
    [w EXCEPT !.robots =
        [i \in Robots |->
            IF do_trace(i)
            THEN [ApplySnapshot(w.robots[i], Item(log, index)[i])
                    EXCEPT !.trace = w.robots[i].trace \o
                              get_trace(log, i, index, max_trace_length)]
            ELSE ApplySnapshot(w.robots[i], Item(log, index)[i])]]
MirrorRecord(w, log, index) ==
    [w EXCEPT !.robots =
        [i \in Robots |->
            IF do_trace(i)
            THEN [ApplySnapshot(w.robots[i], Item(log, index)[i])
                    EXCEPT !.trace = get_trace(log, i, index, max_trace_length)]
            ELSE ApplySnapshot(w.robots[i], Item(log, index)[i])]]

(* self.world.time = time; if self.world.time == 0: reset_ground_image() *)
(* world.time holds the float as passed: t and its distance eps from t     *)
SetFloatTime(w, x) ==
    [w EXCEPT !.time = x.t, !.eps = x.e, !.regenerated = (x.t = 0 /\ x.e = 0)]
SetTime(w, time) == SetFloatTime(w, Float(time, 0))

(* Recorder.goto(time) run from start to end with nothing in between *)
(* an IndexError at self.states[index] leaves the mirror as it was         *)
RecorderGoto(w, log, orig, time) ==
    LET index == GotoIndex(time)
    IN  IF Len(log) = 0
        THEN SetTime(MirrorLive(w, orig), time)
        ELSE IF InList(ClampIndex(index, Len(log)), Len(log))
        THEN SetTime(MirrorRecord(w, log, ClampIndex(index, Len(log))), time)
        ELSE w

(* Recorder.goto(x) for a float x next to a multiple of 0.1: x / 0.1       *)
(* rounds to the index of that multiple, and world.time takes x itself     *)
RecorderGotoFloat(w, log, orig, x) ==
    LET g == RecorderGoto(w, log, orig, x.t)
    IN  IF Len(log) = 0 \/ InList(ClampIndex(GotoIndex(x.t), Len(log)), Len(log))
        THEN SetFloatTime(g, x)
        ELSE w

(* the indexes Recorder.goto(time) subscripts self.states with *)
IndexesRead(log, time) ==
    IF Len(log) = 0 THEN {} ELSE {ClampIndex(GotoIndex(time), Len(log))}

(* self.world, the copy of the live world Recorder.__init__ makes *)
InitRobot(i) ==
    ApplySnapshot([x |-> 0, y |-> 0, a |-> 0, vx |-> 0, vy |-> 0, va |-> 0,
                   stalled |-> FALSE, trace |-> <<>>], Snapshot(0, i))
InitWorld ==
    [robots |-> [i \in Robots |-> InitRobot(i)], time |-> 0, eps |-> 0,
     regenerated |-> FALSE]

----------------------------------------------------------------------------
(* The threads.  "fg" is the caller's thread, "bg" the _Player thread.     *)

Threads == {"fg", "bg"}

Frame(pc) == [pc |-> pc, op |-> "none", target |-> 0, time |-> 0, index |-> 0]

InitFrames == [p \in Threads |-> IF p = "bg" THEN Frame("wait") ELSE Frame("idle")]

(* what a call did besides its writes: the times it passed to             *)
(* Recorder.goto, the indexes those calls read self.states at, and the     *)
(* pictures it handed to the displayers                                    *)
Quiet == [calls |-> <<>>, reads |-> {}, shown |-> 0]

(* the arguments and the outcome of a save_as call *)
NoSave == [start |-> 0, stop |-> <<>>, step |-> 0, mp4 |-> FALSE, retval |-> 0,
           times |-> <<>>, gif |-> 0, result |-> "none", printed |-> FALSE]

Call(op, arg, from, run, seen) ==
    [op |-> op, arg |-> arg, from |-> from, run |-> run,
     calls |-> seen.calls, reads |-> seen.reads, shown |-> seen.shown,
     save |-> NoSave]

NoCall == Call("none", 0, 0, 0, Quiet)

(* the Recorder with its Player, as Recorder.__init__ leaves them *)
InitPlayer ==
    /\ length = 0
    /\ slider_value = 0
    /\ slider_max = 0
    /\ position_text = 0
    /\ description = "Play"
    /\ can_run = FALSE
    /\ displayers = FALSE
    /\ frames = InitFrames
    /\ last = NoCall

playerVars == <<length, slider_value, slider_max, position_text, description,
                can_run, displayers, frames>>

----------------------------------------------------------------------------
(* The Player: the slider is the cursor.  A FloatSlider keeps its value in *)
(* [min, max] = [0, slider_max], and its observer, update_slider_control,  *)
(* runs in the assigning thread, only when the value has changed.          *)

(* the value the slider takes when v is assigned to it *)
SliderClamp(v, max) == Min(Max(v, 0), max)

(* control_slider.max = round(max(self.length * 0.1, 0), 1) *)
SliderMax(n) == Round1(Max(n * Step, 0))

(* Player.goto: the value it assigns to the slider, by position *)
EndTarget(len) == Round1(len * Step)

PrevTarget(value, len) ==
    IF value - Step < 0
    THEN Round1(len * Step)
    ELSE Round1(Max(value - Step, 0))

NextTarget(value, len) ==
    IF Round1(value + Step) > Round1(len * Step)
    THEN 0
    ELSE Round1(Min(value + Step, len * Step))

Positions == {"begin", "end", "prev", "next"}

GotoTarget(position, value, len) ==
    CASE position = "begin" -> 0
      [] position = "end" -> EndTarget(len)
      [] position = "prev" -> PrevTarget(value, len)
      [] position = "next" -> NextTarget(value, len)
      [] OTHER -> value

(* update_slider_control raises AttributeError at self.displayers when     *)
(* initialize() has not run; it has called self.function by then           *)
ObserverRaises == ~displayers

(* what update_slider_control does when the slider value becomes nv: one   *)
(* call of self.function, whose results go to the displayers if there are  *)
(* any; nothing when the value stays the same                              *)
Observed(nv) ==
    IF nv # slider_value
    THEN [calls |-> <<nv>>, reads |-> IndexesRead(states, nv),
          shown |-> IF ObserverRaises THEN 0 ELSE 1]
    ELSE Quiet

(* control_slider.value = v, with update_slider_control when it fires:     *)
(* position_text follows the slider and self.function, Recorder.goto, is   *)
(* called with the new value                                               *)
AssignSlider(v) ==
    LET nv == SliderClamp(v, slider_max)
    IN  /\ slider_value' = nv
        /\ IF nv # slider_value
           THEN /\ position_text' = nv
                /\ world' = RecorderGoto(world, states, orig_robots, nv)
           ELSE UNCHANGED <<position_text, world>>

(* does assigning v run the observer into its exception *)
AssignRaises(v) ==
    SliderClamp(v, slider_max) # slider_value /\ ObserverRaises

(* Player.goto(position); its last line, position_text.value =             *)
(* round(value, 1), repeats what the observer has stored, or is skipped    *)
(* by the exception                                                        *)
PlayerGoto(position) ==
    LET v == GotoTarget(position, slider_value, length)
        nv == SliderClamp(v, slider_max)
    IN  /\ slider_value' = nv
        /\ IF nv # slider_value
           THEN world' = RecorderGoto(world, states, orig_robots, nv)
           ELSE UNCHANGED world
        /\ position_text' = IF AssignRaises(v) THEN nv ELSE Round1(nv)

PlayerGotoRaises(position) ==
    AssignRaises(GotoTarget(position, slider_value, length))

(* how many Player.goto("next") calls in a row there have been since the   *)
(* cursor was at 0 *)
RunAfter(position) ==
    IF position # "next" THEN 0
    ELSE IF slider_value = 0 THEN 1
    ELSE IF last.run > 0 THEN last.run + 1 ELSE 0

----------------------------------------------------------------------------
(* The operations, each from call to return *)

(* the simulation moves the live robots *)
Simulate ==
    /\ orig_robots' \in LiveRobots \ {orig_robots}
    /\ UNCHANGED <<states, world, last>>
    /\ UNCHANGED playerVars

(* Recorder.update *)
UpdateOverLast ==
    /\ Len(states) < MaxLen
    /\ states' = IF states = <<>> THEN <<orig_robots>>
                  ELSE [states EXCEPT ![Len(states)] = orig_robots]
    /\ last' = Call("update", 0, 0, 0, Quiet)
    /\ UNCHANGED <<orig_robots, world>>
    /\ UNCHANGED playerVars
Update ==
    /\ Len(states) < MaxLen
    /\ states' = Append(states, orig_robots)
    /\ last' = Call("update", 0, 0, 0, Quiet)
    /\ UNCHANGED <<orig_robots, world>>
    /\ UNCHANGED playerVars

(* Recorder.reset *)
Reset ==
    /\ states' = <<>>
    /\ last' = Call("reset", 0, 0, 0, Quiet)
    /\ UNCHANGED <<orig_robots, world>>
    /\ UNCHANGED playerVars

(* Recorder.draw: Player.update_length(len(self.states)); a slider whose   *)
(* max drops below its value takes the new max as its value                *)
DrawNoPull ==
    LET n == Len(states)
    IN  /\ length' = n
        /\ slider_max' = SliderMax(n)
        /\ last' = Call("draw", 0, 0, 0, Quiet)
        /\ UNCHANGED <<states, orig_robots, world, slider_value, position_text,
                       description, can_run, displayers, frames>>
Draw ==
    LET n == Len(states)
    IN  /\ length' = n
        /\ slider_max' = SliderMax(n)
        /\ slider_value' = Min(slider_value, SliderMax(n))
        /\ IF SliderMax(n) < slider_value
           THEN /\ position_text' = SliderMax(n)
                /\ world' = RecorderGoto(world, states, orig_robots, SliderMax(n))
           ELSE UNCHANGED <<position_text, world>>
        /\ last' = Call("draw", 0, 0, 0, Observed(Min(slider_value, SliderMax(n))))
        /\ UNCHANGED <<states, orig_robots, description, can_run, displayers,
                       frames>>

(* Player.initialize, run when the widget is displayed *)
Initialize ==
    /\ ~displayers
    /\ world' = RecorderGoto(world, states, orig_robots, slider_value)
    /\ displayers' = TRUE
    /\ last' = Call("initialize", 0, 0, 0,
                  [calls |-> <<slider_value>>,
                   reads |-> IndexesRead(states, slider_value), shown |-> 1])
    /\ UNCHANGED <<states, orig_robots, length, slider_value, slider_max,
                   position_text, description, can_run, frames>>

(* a click on begin, end, prev or next: Player.goto(position) *)
Navigate(position) ==
    /\ PlayerGoto(position)
    /\ last' = Call(position, 0, slider_value, RunAfter(position),
                  Observed(SliderClamp(GotoTarget(position, slider_value, length),
                                       slider_max)))
    /\ UNCHANGED <<states, orig_robots, length, slider_max, description,
                   can_run, displayers, frames>>

(* the slider is dragged to v *)
Seek(v) ==
    /\ AssignSlider(v)
    /\ last' = Call("seek", v, slider_value, 0,
                  Observed(SliderClamp(v, slider_max)))
    /\ UNCHANGED <<states, orig_robots, length, slider_max, description,
                   can_run, displayers, frames>>

(* _Player.pause and _Player.resume *)
pauseNoClear == can_run' = can_run
pause == can_run' = FALSE
resume == can_run' = TRUE

(* Player.toggle_play *)
toggle_play ==
    /\ IF description = "Play"
       THEN description' = "Stop" /\ resume
       ELSE description' = "Play" /\ pause
    /\ last' = Call("toggle_play", 0, 0, last.run, Quiet)
    /\ UNCHANGED <<states, orig_robots, world, length, slider_value,
                   slider_max, position_text, displayers, frames>>

(* Recorder.save_as.  stop is <<>> for None, else <<the literal>>; start,   *)
(* stop and step are in hundredths.                                        *)

(* if stop is None: stop = len(self.states) * 0.1;                         *)
(* stop = min(stop, len(self.states) * 0.1)                                *)
ClampStopNoMin(stop, n) ==
    IF stop = <<>> THEN FloatTimes(n, Literal(Step)) ELSE Literal(stop[1])
ClampStop(stop, n) ==
    LET full == FloatTimes(n, Literal(Step))
    IN  FloatMin(IF stop = <<>> THEN full ELSE Literal(stop[1]), full)

(* arange.__iter__: the test of its while loop, ascending or descending *)
ArangeContinues(current, stop, step) ==
    IF step.t > 0 THEN FloatLeq(current, stop) ELSE FloatLeq(stop, current)

(* the values arange yields from current on: current, current += step, ... *)
RECURSIVE ArangeFrom(_, _, _)
ArangeFrom(current, stop, step) ==
    IF ArangeContinues(current, stop, step)
    THEN <<current>> \o ArangeFrom(FloatAdd(current, step), stop, step)
    ELSE <<>>

(* the frame loop: self.goto(time_step) for each value in turn *)
RECURSIVE GotoEach(_, _, _, _)
GotoEach(w, log, orig, times) ==
    IF times = <<>> THEN w
    ELSE GotoEach(RecorderGotoFloat(w, log, orig, Head(times)), log, orig,
                  Tail(times))

(* what save_as returns: nothing without frames, the gif image without     *)
(* mp4, the mp4 video when ffmpeg exits with 0, nothing otherwise          *)
SaveResult(n, mp4, retval) ==
    IF n = 0 THEN "None"
    ELSE IF ~mp4 THEN "Image"
    ELSE IF retval = 0 THEN "HTML"
    ELSE "None"

(* save_as from call to return, for a step other than 0; the gif file     *)
(* gets all the frames, and ffmpeg runs, with exit status retval, only for *)
(* mp4 with frames                                                         *)
SaveAsMovesCursor(start, stop, step, mp4, retval) ==
    /\ step # 0
    /\ ~mp4 => retval = 0
    /\ \E times \in {ArangeFrom(Literal(start), ClampStop(stop, Len(states)),
                                 Literal(step))} :
        LET n == Len(times)
            seen == [calls |-> [j \in 1 .. n |-> times[j].t],
                     reads |-> UNION {IndexesRead(states, times[j].t) :
                                        j \in 1 .. n},
                     shown |-> 0]
        IN  /\ n = 0 => retval = 0
            /\ world' = GotoEach(world, states, orig_robots, times)
            /\ last' = [Call("save_as", 0, 0, 0, seen) EXCEPT !.save =
                           [start |-> start, stop |-> stop, step |-> step,
                            mp4 |-> mp4, retval |-> retval, times |-> times,
                            gif |-> n, result |-> SaveResult(n, mp4, retval),
                            printed |-> (mp4 /\ n > 0 /\ retval # 0)]]
    /\ UNCHANGED <<states, orig_robots>>
    /\ slider_value' = Len(states) * Step
    /\ UNCHANGED <<length, slider_max, position_text, description, can_run,
                   displayers, frames>>
SaveAs(start, stop, step, mp4, retval) ==
    /\ step # 0
    /\ ~mp4 => retval = 0
    /\ \E times \in {ArangeFrom(Literal(start), ClampStop(stop, Len(states)),
                                 Literal(step))} :
        LET n == Len(times)
            seen == [calls |-> [j \in 1 .. n |-> times[j].t],
                     reads |-> UNION {IndexesRead(states, times[j].t) :
                                        j \in 1 .. n},
                     shown |-> 0]
        IN  /\ n = 0 => retval = 0
            /\ world' = GotoEach(world, states, orig_robots, times)
            /\ last' = [Call("save_as", 0, 0, 0, seen) EXCEPT !.save =
                           [start |-> start, stop |-> stop, step |-> step,
                            mp4 |-> mp4, retval |-> retval, times |-> times,
                            gif |-> n, result |-> SaveResult(n, mp4, retval),
                            printed |-> (mp4 /\ n > 0 /\ retval # 0)]]
    /\ UNCHANGED <<states, orig_robots>>
    /\ UNCHANGED playerVars

(* _Player.run: self.can_run.wait() returns *)
ThreadWaitNoWait ==
    /\ frames["bg"].pc = "wait"
    /\ frames' = [frames EXCEPT !["bg"].pc = "next"]
    /\ UNCHANGED <<states, orig_robots, world, length, slider_value,
                   slider_max, position_text, description, can_run,
                   displayers, last>>
ThreadWait ==
    /\ frames["bg"].pc = "wait"
    /\ can_run
    /\ frames' = [frames EXCEPT !["bg"].pc = "next"]
    /\ UNCHANGED <<states, orig_robots, world, length, slider_value,
                   slider_max, position_text, description, can_run,
                   displayers, last>>

(* _Player.run: self.controller.goto("next"); an exception ends the thread *)
ThreadNext ==
    /\ frames["bg"].pc = "next"
    /\ PlayerGoto("next")
    /\ frames' = [frames EXCEPT !["bg"].pc =
                     IF PlayerGotoRaises("next") THEN "dead" ELSE "sleep"]
    /\ last' = Call("next", 1, slider_value, RunAfter("next"),
                  Observed(SliderClamp(GotoTarget("next", slider_value, length),
                                       slider_max)))
    /\ UNCHANGED <<states, orig_robots, length, slider_max, description,
                   can_run, displayers>>

(* _Player.run: time.sleep(self.time_wait) returns *)
ThreadSleepToNext ==
    /\ frames["bg"].pc = "sleep"
    /\ frames' = [frames EXCEPT !["bg"].pc = "next"]
    /\ UNCHANGED <<states, orig_robots, world, length, slider_value,
                   slider_max, position_text, description, can_run,
                   displayers, last>>
ThreadSleep ==
    /\ frames["bg"].pc = "sleep"
    /\ frames' = [frames EXCEPT !["bg"].pc = "wait"]
    /\ UNCHANGED <<states, orig_robots, world, length, slider_value,
                   slider_max, position_text, description, can_run,
                   displayers, last>>

Init ==
    /\ states = <<>>
    /\ orig_robots = [i \in Robots |-> Snapshot(0, i)]
    /\ world = InitWorld
    /\ InitPlayer

SeekValues == {k * Step : k \in 0 .. MaxLen}

(* the arguments save_as is given *)
SaveTimes == {k * Step : k \in (0 - 1) .. MaxSave}
SaveStops == {<<>>} \cup {<<t>> : t \in SaveTimes}
SaveSteps == {k * Step : k \in (0 - MaxStride) .. MaxStride}
ExitStatus == {0, 1}


Next ==
    \/ Simulate
    \/ Update
    \/ Reset
    \/ Draw
    \/ Initialize
    \/ \E position \in Positions : Navigate(position)
    \/ \E v \in SeekValues : Seek(v)
    \/ toggle_play
    \/ ThreadWait
    \/ ThreadNext
    \/ ThreadSleep

Spec == Init /\ [][Next]_vars

----------------------------------------------------------------------------
(* save_as as a function of its inputs: any log, any live robots and any   *)
(* arguments, called once on the mirror as Recorder.__init__ leaves it     *)

InitSave ==
    /\ states \in Logs
    /\ orig_robots \in LiveRobots
    /\ world = InitWorld
    /\ InitPlayer

CallSaveAs(start, stop, step, mp4, retval) ==
    /\ last.op = "none"
    /\ SaveAs(start, stop, step, mp4, retval)

NextSave ==
    \E start \in SaveTimes, stop \in SaveStops, step \in SaveSteps,
       mp4 \in BOOLEAN, retval \in ExitStatus :
         CallSaveAs(start, stop, step, mp4, retval)

SpecSave == InitSave /\ [][NextSave]_vars

----------------------------------------------------------------------------
(* Every operation of the Recorder and its Player, save_as among them, on  *)
(* a world that stands still: save_as runs forward over the whole log from *)
(* before its start, and backward from past its end                        *)

SavesTried == {<<0 - Step, <<>>, Step>>, <<2 * Step, <<0>>, 0 - Step>>}

NextOps ==
    \/ Update
    \/ Reset
    \/ Draw
    \/ Initialize
    \/ \E position \in Positions : Navigate(position)
    \/ \E v \in SeekValues : Seek(v)
    \/ toggle_play
    \/ \E a \in SavesTried, mp4 \in BOOLEAN, retval \in ExitStatus :
          SaveAs(a[1], a[2], a[3], mp4, retval)
    \/ ThreadWait
    \/ ThreadNext
    \/ ThreadSleep

SpecOps == Init /\ [][NextOps]_vars

----------------------------------------------------------------------------
(* The same code statement by statement, the caller's thread and the       *)
(* _Player thread interleaving.  frames[p].pc is the statement thread p is *)
(* about to run, frames[p].op the call it is in; target, time and index    *)
(* are the locals of Player.goto and Recorder.goto.                        *)

(* the call returns, or an exception leaves it: the caller's thread is     *)
(* free again, the _Player thread goes to sleep, or ends                   *)
Returned(p) == IF p = "bg" THEN Frame("sleep") ELSE Frame("idle")
Raised(p) == IF p = "bg" THEN Frame("dead") ELSE Frame("idle")

InRecorderGoto(p) ==
    frames[p].pc \in {"g_index", "g_live", "g_clamp", "g_record", "g_time"}

(* a click on begin, end, prev or next *)
CallPlayerGoto(position) ==
    /\ frames["fg"].pc = "idle"
    /\ frames' = [frames EXCEPT !["fg"].pc = "p_read", !["fg"].op = position]
    /\ UNCHANGED <<states, orig_robots, world, length, slider_value,
                   slider_max, position_text, description, can_run,
                   displayers, last>>

(* the slider is dragged to v *)
CallSeek(v) ==
    /\ frames["fg"].pc = "idle"
    /\ frames' = [frames EXCEPT !["fg"].pc = "p_assign", !["fg"].op = "seek",
                                !["fg"].target = v]
    /\ UNCHANGED <<states, orig_robots, world, length, slider_value,
                   slider_max, position_text, description, can_run,
                   displayers, last>>

(* Recorder.draw: update_length up to the slider's new max and value; the  *)
(* observer follows when the value was pulled down                         *)
CallDraw ==
    LET n == Len(states)
    IN  /\ frames["fg"].pc = "idle"
        /\ length' = n
        /\ slider_max' = SliderMax(n)
        /\ slider_value' = Min(slider_value, SliderMax(n))
        /\ frames' = [frames EXCEPT !["fg"].pc =
                         IF SliderMax(n) < slider_value THEN "observe"
                         ELSE "idle",
                                    !["fg"].op =
                         IF SliderMax(n) < slider_value THEN "draw"
                         ELSE "none"]
        /\ UNCHANGED <<states, orig_robots, world, position_text, description,
                       can_run, displayers, last>>

(* Player.initialize: results = self.function(self.control_slider.value) *)
CallInitialize ==
    /\ frames["fg"].pc = "idle"
    /\ ~displayers
    /\ frames' = [frames EXCEPT !["fg"].pc = "g_index",
                                !["fg"].op = "initialize",
                                !["fg"].time = slider_value]
    /\ UNCHANGED <<states, orig_robots, world, length, slider_value,
                   slider_max, position_text, description, can_run,
                   displayers, last>>

(* _Player.run: self.controller.goto("next") is entered *)
ThreadCallNext ==
    /\ frames["bg"].pc = "next"
    /\ frames' = [frames EXCEPT !["bg"].pc = "p_read", !["bg"].op = "next"]
    /\ UNCHANGED <<states, orig_robots, world, length, slider_value,
                   slider_max, position_text, description, can_run,
                   displayers, last>>

(* Player.goto: the right-hand side is evaluated, reading the slider's     *)
(* value and self.length                                                   *)
StepRead(p) ==
    /\ frames[p].pc = "p_read"
    /\ frames' = [frames EXCEPT ![p].pc = "p_assign",
                     ![p].target = GotoTarget(frames[p].op, slider_value, length)]
    /\ UNCHANGED <<states, orig_robots, world, length, slider_value,
                   slider_max, position_text, description, can_run,
                   displayers, last>>

(* self.control_slider.value = ... : the observer runs next if the value   *)
(* changed, else the call goes on to its last line, or a seek is over      *)
StepAssign(p) ==
    LET nv == SliderClamp(frames[p].target, slider_max)
    IN  /\ frames[p].pc = "p_assign"
        /\ slider_value' = nv
        /\ frames' = [frames EXCEPT ![p] =
                         IF nv # slider_value
                         THEN [frames[p] EXCEPT !.pc = "observe", !.target = 0]
                         ELSE IF frames[p].op = "seek" THEN Returned(p)
                         ELSE [frames[p] EXCEPT !.pc = "p_text", !.target = 0]]
        /\ UNCHANGED <<states, orig_robots, world, length, slider_max,
                       position_text, description, can_run, displayers, last>>

(* update_slider_control up to the call of self.function: position_text    *)
(* and the argument are read from the slider as it is now                  *)
StepObserve(p) ==
    /\ frames[p].pc = "observe"
    /\ position_text' = slider_value
    /\ frames' = [frames EXCEPT ![p].pc = "g_index", ![p].time = slider_value]
    /\ UNCHANGED <<states, orig_robots, world, length, slider_value,
                   slider_max, description, can_run, displayers, last>>

(* Recorder.goto: index = round(time / 0.1); if len(self.states) == 0 *)
StepGotoIndex(p) ==
    /\ frames[p].pc = "g_index"
    /\ frames' = [frames EXCEPT ![p].index = GotoIndex(frames[p].time),
                     ![p].pc = IF Len(states) = 0 THEN "g_live" ELSE "g_clamp"]
    /\ UNCHANGED <<states, orig_robots, world, length, slider_value,
                   slider_max, position_text, description, can_run,
                   displayers, last>>

(* Recorder.goto: the loop over the live robots *)
StepGotoLive(p) ==
    /\ frames[p].pc = "g_live"
    /\ world' = MirrorLive(world, orig_robots)
    /\ frames' = [frames EXCEPT ![p].pc = "g_time", ![p].index = 0]
    /\ UNCHANGED <<states, orig_robots, length, slider_value, slider_max,
                   position_text, description, can_run, displayers, last>>

(* Recorder.goto: index = max(min(len(self.states) - 1, index), 0) *)
StepGotoClamp(p) ==
    /\ frames[p].pc = "g_clamp"
    /\ frames' = [frames EXCEPT ![p].pc = "g_record",
                     ![p].index = ClampIndex(frames[p].index, Len(states))]
    /\ UNCHANGED <<states, orig_robots, world, length, slider_value,
                   slider_max, position_text, description, can_run,
                   displayers, last>>

(* Recorder.goto: self.states[index] and the loop over its snapshots;      *)
(* IndexError when the log no longer has that index                        *)
StepGotoRecord(p) ==
    /\ frames[p].pc = "g_record"
    /\ IF frames[p].index < Len(states)
       THEN /\ world' = MirrorRecord(world, states, frames[p].index)
            /\ frames' = [frames EXCEPT ![p].pc = "g_time", ![p].index = 0]
       ELSE /\ UNCHANGED world
            /\ frames' = [frames EXCEPT ![p] = Raised(p)]
    /\ UNCHANGED <<states, orig_robots, length, slider_value, slider_max,
                   position_text, description, can_run, displayers, last>>

(* Recorder.goto: self.world.time = time up to return picture *)
StepGotoTime(p) ==
    /\ frames[p].pc = "g_time"
    /\ world' = SetTime(world, frames[p].time)
    /\ frames' = [frames EXCEPT ![p].pc =
                     IF frames[p].op = "initialize" THEN "i_display"
                     ELSE "o_display",
                                ![p].time = 0]
    /\ UNCHANGED <<states, orig_robots, length, slider_value, slider_max,
                   position_text, description, can_run, displayers, last>>

(* update_slider_control: the loop over self.displayers; AttributeError    *)
(* when initialize() has not run                                           *)
StepDisplay(p) ==
    /\ frames[p].pc = "o_display"
    /\ frames' = [frames EXCEPT ![p] =
                     IF ObserverRaises THEN Raised(p)
                     ELSE IF frames[p].op \in Positions
                     THEN [frames[p] EXCEPT !.pc = "p_text"]
                     ELSE Returned(p)]
    /\ UNCHANGED <<states, orig_robots, world, length, slider_value,
                   slider_max, position_text, description, can_run,
                   displayers, last>>

(* Player.initialize: self.displayers = [...] *)
StepInitDisplay(p) ==
    /\ frames[p].pc = "i_display"
    /\ displayers' = TRUE
    /\ frames' = [frames EXCEPT ![p] = Returned(p)]
    /\ UNCHANGED <<states, orig_robots, world, length, slider_value,
                   slider_max, position_text, description, can_run, last>>

(* Player.goto: self.position_text.value = round(self.control_slider.value, 1) *)
StepText(p) ==
    /\ frames[p].pc = "p_text"
    /\ position_text' = Round1(slider_value)
    /\ frames' = [frames EXCEPT ![p] = Returned(p)]
    /\ UNCHANGED <<states, orig_robots, world, length, slider_value,
                   slider_max, description, can_run, displayers, last>>

(* the calls that are one statement wait for the caller's thread; the     *)
(* live robots stand still in these runs                                   *)
FgIdle == frames["fg"].pc = "idle"

NextConc ==
    \/ FgIdle /\ Len(states) < MaxConcLen /\ Update
    \/ FgIdle /\ Reset
    \/ FgIdle /\ toggle_play
    \/ CallDraw
    \/ CallInitialize
    \/ \E position \in Positions : CallPlayerGoto(position)
    \/ \E v \in SeekValues : v <= MaxConcLen * Step /\ CallSeek(v)
    \/ ThreadWait
    \/ ThreadCallNext
    \/ ThreadSleep
    \/ \E p \in Threads :
          \/ StepRead(p)
          \/ StepAssign(p)
          \/ StepObserve(p)
          \/ StepGotoIndex(p)
          \/ StepGotoLive(p)
          \/ StepGotoClamp(p)
          \/ StepGotoRecord(p)
          \/ StepGotoTime(p)
          \/ StepDisplay(p)
          \/ StepInitDisplay(p)
          \/ StepText(p)

SpecConc == Init /\ [][NextConc]_vars

----------------------------------------------------------------------------
(* Recorder.goto as a function of its inputs: any log, any live robots,    *)
(* any time value.                                                         *)

(* the traces the mirror robots may hold from before: none, or one point *)
OldTraces == {<<>>, <<<<<<0, 0>>, 0>>>>}

MirrorsBefore ==
    {[InitWorld EXCEPT !.robots =
         [i \in Robots |-> [InitWorld.robots[i] EXCEPT !.trace = tr[i]]]] :
       tr \in [Robots -> OldTraces]}

InitGoto ==
    /\ states \in Logs
    /\ orig_robots \in LiveRobots
    /\ world \in MirrorsBefore
    /\ InitPlayer

(* a direct call recorder.goto(t) *)
CallGoto(t) ==
    /\ world' = RecorderGoto(world, states, orig_robots, t)
    /\ last' = Call("goto", t, 0, 0,
                  [calls |-> <<t>>, reads |-> IndexesRead(states, t),
                   shown |-> 0])
    /\ UNCHANGED <<states, orig_robots>>
    /\ UNCHANGED playerVars

NextGoto == \E t \in TimeValues : CallGoto(t)

SpecGoto == InitGoto /\ [][NextGoto]_vars

----------------------------------------------------------------------------
(* save_as one iteration of its frame loop at a time, in the caller's      *)
(* thread, called once on any log with any arguments, step = 0 included.   *)

(* the locals of save_as in its frame loop: the generator's current, the   *)
(* clamped stop and the step, and the list frames as its length up to      *)
(* MaxFrames with the parity of the exact length                           *)
SaveFrame(current, stop, step, count, odd) ==
    [pc |-> "s_loop", op |-> "save_as", target |-> 0, time |-> 0, index |-> 0,
     current |-> current, stop |-> stop, step |-> step,
     count |-> count, odd |-> odd]

(* progress_bar(arange(start, stop, step)): with tqdm installed,           *)
(* tqdm.tqdm(range) asks for len(range) and lets through the               *)
(* ZeroDivisionError arange.__len__ raises for step = 0; without tqdm the  *)
(* arange itself is iterated                                               *)
ProgressBarRaises(tqdm, step) == tqdm /\ step = 0

(* the call up to the for statement *)
CallSaveLoop(start, stop, step, tqdm) ==
    /\ last.op = "none"
    /\ frames["fg"].pc = "idle"
    /\ frames' = [frames EXCEPT !["fg"] =
                     IF ProgressBarRaises(tqdm, step) THEN Raised("fg")
                     ELSE SaveFrame(Literal(start),
                                    ClampStop(stop, Len(states)),
                                    Literal(step), 0, FALSE)]
    /\ last' = [Call("save_as", 0, 0, 0, Quiet) EXCEPT !.save =
                   [NoSave EXCEPT !.start = start, !.stop = stop,
                                  !.step = step,
                                  !.result = IF ProgressBarRaises(tqdm, step)
                                             THEN "ZeroDivisionError"
                                             ELSE "none"]]
    /\ UNCHANGED <<states, orig_robots, world, length, slider_value,
                   slider_max, position_text, description, can_run,
                   displayers>>

(* one turn of the loop: arange yields current, save_as calls              *)
(* self.goto(time_step) and appends the picture, arange adds the step      *)
StepFrame ==
    LET f == frames["fg"]
    IN  /\ f.pc = "s_loop"
        /\ ArangeContinues(f.current, f.stop, f.step)
        /\ world' = RecorderGotoFloat(world, states, orig_robots, f.current)
        /\ frames' = [frames EXCEPT !["fg"] =
                         SaveFrame(FloatAdd(f.current, f.step), f.stop, f.step,
                                   Min(f.count + 1, MaxFrames), ~f.odd)]
        /\ UNCHANGED <<states, orig_robots, length, slider_value, slider_max,
                       position_text, description, can_run, displayers, last>>

(* arange is exhausted: the for statement is over *)
StepFramesDone ==
    LET f == frames["fg"]
    IN  /\ f.pc = "s_loop"
        /\ ~ArangeContinues(f.current, f.stop, f.step)
        /\ frames' = [frames EXCEPT !["fg"] = [f EXCEPT !.pc = "s_write"]]
        /\ UNCHANGED <<states, orig_robots, world, length, slider_value,
                       slider_max, position_text, description, can_run,
                       displayers, last>>

(* the rest of save_as: the gif file, ffmpeg for mp4, and the return *)
StepWrite(mp4, retval) ==
    LET f == frames["fg"]
    IN  /\ f.pc = "s_write"
        /\ ~mp4 => retval = 0
        /\ f.count = 0 => retval = 0
        /\ frames' = [frames EXCEPT !["fg"] = Returned("fg")]
        /\ last' = [last EXCEPT !.save.mp4 = mp4, !.save.retval = retval,
                       !.save.gif = f.count,
                       !.save.result = SaveResult(f.count, mp4, retval),
                       !.save.printed = (mp4 /\ f.count > 0 /\ retval # 0)]
        /\ UNCHANGED <<states, orig_robots, world, length, slider_value,
                       slider_max, position_text, description, can_run,
                       displayers>>

NextLoop ==
    \/ \E start \in SaveTimes, stop \in SaveStops, step \in SaveSteps,
          tqdm \in BOOLEAN : CallSaveLoop(start, stop, step, tqdm)
    \/ StepFrame
    \/ StepFramesDone
    \/ \E mp4 \in BOOLEAN, retval \in ExitStatus : StepWrite(mp4, retval)

(* the caller's thread goes on running the call it is in *)
SpecLoop ==
    /\ InitSave
    /\ [][NextLoop]_vars
    /\ WF_vars(StepFrame)
    /\ WF_vars(StepFramesDone)
    /\ WF_vars(\E mp4 \in BOOLEAN, retval \in ExitStatus : StepWrite(mp4, retval))

----------------------------------------------------------------------------
(* C1: on a non-empty log of length L, goto(t) leaves every mirror robot   *)
(* with exactly the recorded snapshot states[k][i] (pose, vx, vy, va,      *)
(* stalled), k = clamp(round(t / 0.1), 0, L - 1); with 3 records and       *)
(* t = 0.25 that is the record at index 2.                                 *)

(* clamp(round(t / 0.1), 0, L - 1), written out: the nearest multiple of   *)
(* 0.1 below or above t, the even one on a tie                             *)
SelectedIndex(t, L) ==
    LET lo == CHOOSE k \in (MinTime \div Step) - 1 .. (MaxTime \div Step) + 1 :
                  k * Step <= t /\ t < (k + 1) * Step
        k  == IF t - lo * Step < (lo + 1) * Step - t THEN lo
              ELSE IF t - lo * Step > (lo + 1) * Step - t THEN lo + 1
              ELSE IF lo % 2 = 0 THEN lo ELSE lo + 1
    IN  IF k < 0 THEN 0 ELSE IF k > L - 1 THEN L - 1 ELSE k

RobotShows(robot, state) ==
    <<robot.x, robot.y, robot.a, robot.vx, robot.vy, robot.va, robot.stalled>>
        = state

C1_GotoAppliesClampedRecord ==
    (last.op = "goto" /\ Len(states) > 0) =>
        /\ \A i \in Robots :
              RobotShows(world.robots[i],
                         states[SelectedIndex(last.arg, Len(states)) + 1][i])
        /\ (Len(states) >= 3 /\ last.arg = 25) =>
              \A i \in Robots : RobotShows(world.robots[i], states[3][i])

(* reached: goto(0.25) and goto(-0.3) on logs of four records whose third  *)
(* record differs from its neighbours and from the first                   *)
C1_Witness ==
    /\ last.op = "goto"
    /\ last.arg \in {25, MinTime}
    /\ Len(states) = 4
    /\ states[3] # states[4]
    /\ states[3] # states[2]
    /\ states[1] # states[2]

----------------------------------------------------------------------------
(* C2 as stated: on a non-empty log, goto(t) leaves the mirror world in    *)
(* the state goto(c) leaves it in, c = clamp(round(t/0.1), 0, L-1) * 0.1:  *)
(* robots, traces, the simulated-time field and whether the background was *)
(* regenerated.                                                            *)

ClampedTime(t, L) == SelectedIndex(t, L) * Step

C2_GotoSameAsGotoClamped ==
    [][(last'.op = "goto" /\ Len(states) > 0) =>
          world' = RecorderGoto(world, states, orig_robots,
                                ClampedTime(last'.arg, Len(states)))]_vars

(* C2 amended: goto(t) and goto(c) leave the mirror robots (pose,          *)
(* velocities, stalled, trace) the same; the time field is the argument as *)
(* passed, t after goto(t) and c after goto(c), and the background is      *)
(* regenerated exactly when that argument is 0; goto(c) applied again to   *)
(* the state goto(c) left changes nothing.                                 *)
C2_GotoAgreesOnRobots ==
    [][(last'.op = "goto" /\ Len(states) > 0) =>
          LET t == last'.arg
              c == ClampedTime(t, Len(states))
              viaC == RecorderGoto(world, states, orig_robots, c)
          IN  /\ world'.robots = viaC.robots
              /\ world'.time = t
              /\ viaC.time = c
              /\ world'.regenerated = (t = 0)
              /\ viaC.regenerated = (c = 0)
              /\ RecorderGoto(viaC, states, orig_robots, c) = viaC
              /\ (last.op = "goto" /\ last.arg = t /\ t = c) =>
                    world' = world]_vars

(* reached: goto(t) with t off its clamped time, on a log whose records    *)
(* differ, leaving a two-entry trace                                       *)
C2_Witness ==
    /\ last.op = "goto"
    /\ Len(states) >= 2
    /\ last.arg # ClampedTime(last.arg, Len(states))
    /\ ClampedTime(last.arg, Len(states)) >= Step
    /\ states[1] # states[2]
    /\ Len(world.robots[1].trace) = 2

----------------------------------------------------------------------------
(* C3: with Player.length equal to the log's length L >= 1, L calls of     *)
(* Player.goto("next") in a row from cursor 0 bring the cursor back to 0,  *)
(* and fewer calls (when L > 1) do not.                                    *)
C3_NextWrapsAfterLCalls ==
    (last.op = "next" /\ last.run > 0 /\ length = Len(states) /\ length >= 1) =>
        /\ last.run = length => slider_value = 0
        /\ last.run < length => slider_value # 0

(* C4: with Player.length equal to the log's length L >= 1,                *)
(* Player.goto("prev") moves the cursor from index 0 to index L - 1 and    *)
(* from an index c > 0 to c - 1.                                           *)
C4_PrevWrapsToLastIndex ==
    (last.op = "prev" /\ length = Len(states) /\ length >= 1) =>
        /\ last.from = 0 => slider_value = (length - 1) * Step
        /\ last.from > 0 => slider_value = last.from - Step

(* C5: Player.goto("end") leaves the cursor at the last valid index: at    *)
(* time (L - 1) * 0.1 for a log of length L >= 1 that the Player's length  *)
(* has been synchronised to, at 0 for an empty one.                        *)
C5_EndIsLastIndex ==
    (last.op = "end" /\ length = Len(states)) =>
        slider_value = IF length >= 1 THEN (length - 1) * Step ELSE 0

(* C6: whenever the log is non-empty the cursor's step index is one of the *)
(* log's indices, 0 .. len(states) - 1.                                    *)
C6_CursorIndexInLog ==
    Len(states) > 0 => (slider_value \div Step) \in 0 .. Len(states) - 1

(* C7: whenever the log is empty the cursor is 0, draw() called or not,    *)
(* and navigation on an empty log leaves it at 0.                          *)
C7_CursorZeroWhenLogEmpty ==
    Len(states) = 0 => slider_value = 0

(* C8: never are two threads inside Recorder.goto at the same time.        *)
C8_OneGotoInFlight ==
    ~(InRecorderGoto("fg") /\ InRecorderGoto("bg"))

(* C9: once pause() has returned and until resume() is called, that is     *)
(* while the run signal is clear, the thread makes no goto("next") call.   *)
C9_NoNextWhilePaused ==
    [][(frames["bg"].pc = "next" /\ frames'["bg"].pc # "next") => can_run]_vars

----------------------------------------------------------------------------
(* The scheduler runs the _Player thread whenever it can take a step: the  *)
(* wait returns once the event is set, the call is made, the sleep ends.   *)
SpecLive ==
    Spec /\ WF_vars(ThreadWait) /\ WF_vars(ThreadNext) /\ WF_vars(ThreadSleep)

(* C10: if after a resume() the run signal stays set (no pause() follows), *)
(* the thread completes goto("next") calls again and again, forever.       *)
C10_ResumedThreadKeepsAdvancing ==
    <>[]can_run => []<>(frames["bg"].pc = "sleep")

----------------------------------------------------------------------------
(* C11: a goto("next") that fails in the _Player thread never ends the     *)
(* thread: it has no terminal state and is in its loop after any failure.  *)
C11_WorkerSurvivesFailingNext ==
    frames["bg"].pc # "dead"

C13_OneGotoAndPicturePerNavigation ==
    last.op \in Positions \cup {"seek"} =>
        /\ last.calls = <<slider_value>>
        /\ last.shown = 1

(* C14: every time save_as passes to Recorder.goto is at most L * 0.1, for *)
(* every start, stop and step, ascending or descending.                    *)
C14_ExportNeverPastLog ==
    last.op = "save_as" =>
        \A j \in 1 .. Len(last.save.times) :
            FloatLeq(last.save.times[j],
                     FloatTimes(Len(states), Literal(Step)))

(* C15: on an empty log save_as with start = 0, stop >= 0 or None and      *)
(* step > 0 clamps stop to 0 and makes exactly one frame, at time 0, with  *)
(* the mirror showing the live robots and no record read.                  *)
C15_EmptyLogExportsOneFrame ==
    (/\ last.op = "save_as"
     /\ Len(states) = 0
     /\ last.save.start = 0
     /\ (last.save.stop = <<>> \/ last.save.stop[1] >= 0)
     /\ last.save.step > 0) =>
        /\ ClampStop(last.save.stop, Len(states)) = Float(0, 0)
        /\ last.save.times = <<Float(0, 0)>>
        /\ last.save.gif = 1
        /\ last.reads = {}
        /\ world.time = 0 /\ world.eps = 0
        /\ \A i \in Robots : RobotShows(world.robots[i], orig_robots[i])

(* reached: stop = 0.1 clamped to 0 on an empty log, the live robots moved *)
C15_Witness ==
    /\ last.op = "save_as"
    /\ Len(states) = 0
    /\ last.save.start = 0
    /\ last.save.stop = <<Step>>
    /\ last.save.step = Step
    /\ last.save.gif = 1
    /\ orig_robots # [i \in Robots |-> Snapshot(0, i)]

(* C16: with mp4 = True and a non-zero exit status of the encoder, save_as *)
(* does not raise, returns a result that tells the failure apart, and the  *)
(* gif it wrote is there, with frames, and is returned.                    *)
C16_EncoderFailureReturnsGif ==
    (last.op = "save_as" /\ last.save.mp4 /\ last.save.retval # 0) =>
        /\ last.save.gif > 0
        /\ last.save.result # "None"

(* C17: on an empty log Recorder.goto(t) reads no record, gives every      *)
(* mirror robot the live robot's pose, velocities and stalled flag, and    *)
(* leaves every mirror robot's trace empty.                                *)
C17_EmptyLogMirrorsLive ==
    (last.op = "goto" /\ Len(states) = 0) =>
        /\ last.reads = {}
        /\ \A i \in Robots :
              /\ RobotShows(world.robots[i], orig_robots[i])
              /\ world.robots[i].trace = <<>>

(* reached: goto(-0.3) on an empty log whose live robots have moved *)
C17_Witness ==
    /\ last.op = "goto"
    /\ Len(states) = 0
    /\ last.arg = MinTime
    /\ world.time = MinTime
    /\ orig_robots # [i \in Robots |-> Snapshot(0, i)]

(* C18: whatever begin, end, next, prev, seek and save_as calls are made,  *)
(* on an empty log or not, every index self.states is read at lies in      *)
(* 0 .. len(self.states) - 1.                                              *)
C18_IndexesReadInRange ==
    \A k \in last.reads : 0 <= k /\ k <= Len(states) - 1

(* reached: save_as starting at 0.2 on a log of one record read record 0 *)
C18_Witness ==
    /\ last.op = "save_as"
    /\ Len(states) = 1
    /\ last.calls = <<2 * Step, Step, 0>>
    /\ last.reads = {0}

(* C19: after goto settles on index k of a non-empty log, a robot that     *)
(* draws its trace has as trace the (position, heading) of the records     *)
(* max(k - m, 0) .. k in that order, m its maximum trace length, that is   *)
(* min(k, m) + 1 entries; a robot that does not keeps the trace it had.    *)
C19_TraceIsWindowBeforeIndex ==
    [][(last'.op = "goto" /\ Len(states) > 0) =>
          LET k == SelectedIndex(last'.arg, Len(states))
              m == max_trace_length
              first == IF k - m > 0 THEN k - m ELSE 0
              n == (IF k < m THEN k ELSE m) + 1
          IN  \A i \in Robots :
                IF do_trace(i)
                THEN /\ Len(world'.robots[i].trace) = n
                     /\ k - first + 1 = n
                     /\ \A j \in 1 .. n :
                          world'.robots[i].trace[j] =
                              <<<<states[first + j][i][1], states[first + j][i][2]>>,
                                states[first + j][i][3]>>
                ELSE world'.robots[i].trace = world.robots[i].trace]_vars

(* reached: k = 2 with m = 1 gives the two entries of records 1 and 2, and *)
(* the robot that does not draw still has its old trace                    *)
C19_Witness ==
    /\ last.op = "goto"
    /\ Len(states) >= 3
    /\ SelectedIndex(last.arg, Len(states)) = 2
    /\ Len(world.robots[1].trace) = 2
    /\ world.robots[1].trace[1][2] = states[2][1][3]
    /\ world.robots[2].trace # <<>>

(* C20: Recorder.update appends one record and leaves the earlier ones as  *)
(* they were, Recorder.reset empties the log, and no other operation       *)
(* changes the log.                                                        *)
C20_LogAppendOnly ==
    [][\/ /\ last'.op = "update" /\ frames' = frames
          /\ Len(states') = Len(states) + 1
          /\ SubSeq(states', 1, Len(states)) = states
          /\ states'[Len(states')] = orig_robots
       \/ /\ last'.op = "reset" /\ frames' = frames
          /\ states' = <<>>
       \/ /\ ~(last'.op \in {"update", "reset"} /\ frames' = frames)
          /\ states' = states]_vars

(* reached: a record appended after save_as and playback have run *)
C20_Witness ==
    /\ last.op = "update"
    /\ Len(states) = 2
    /\ frames["bg"].pc = "sleep"
    /\ world.time = Step

(* C21: for step > 0 and start <= the clamped stop, save_as calls          *)
(* Recorder.goto once for each of start, start + step, start + 2 * step,   *)
(* ... up to and including stop, in that order, and collects one frame per *)
(* call.                                                                   *)
C21_ExportVisitsEveryStep ==
    LET full == Len(states) * Step
        stop == IF last.save.stop = <<>> THEN full
                ELSE IF last.save.stop[1] < full THEN last.save.stop[1]
                ELSE full
        n == ((stop - last.save.start) \div last.save.step) + 1
    IN  (/\ last.op = "save_as"
         /\ last.save.step > 0
         /\ last.save.start <= stop) =>
            /\ last.calls = [j \in 1 .. n |->
                               last.save.start + (j - 1) * last.save.step]
            /\ last.save.gif = n

(* C22: save_as leaves the Player's cursor, its length and the Play / Stop *)
(* state with the run signal as they were, for every start, stop, step and *)
(* exit status of the encoder.                                             *)
C22_ExportLeavesPlayerAlone ==
    [][(last'.op = "save_as" /\ frames' = frames) =>
          UNCHANGED <<slider_value, length, description, can_run>>]_vars

(* reached: save_as with the encoder failing, while playing, the cursor    *)
(* away from both ends of what save_as rendered                            *)
C22_Witness ==
    /\ last.op = "save_as"
    /\ last.save.mp4 /\ last.save.retval # 0
    /\ last.save.gif > 1
    /\ can_run /\ description = "Stop"
    /\ slider_value = Step
    /\ world.time # slider_value
    /\ length = 2

(* C23: the _Player thread starts paused: from the construction of the     *)
(* Player, which starts it, until the first toggle_play sets the run       *)
(* signal, the thread stays in can_run.wait(), makes no goto("next") and   *)
(* does not move the cursor.                                               *)
C23_ThreadStartsPaused ==
    /\ ~can_run /\ frames["bg"].pc = "wait"
    /\ [][(~can_run /\ frames["bg"].pc = "wait") =>
             /\ frames'["bg"].pc = "wait"
             /\ can_run' => last'.op = "toggle_play"
             /\ slider_value' # slider_value => last'.arg # 1]_vars

(* reached: the caller has moved the cursor to 0.2 and no toggle_play has  *)
(* been made; the thread is still waiting                                  *)
C23_Witness ==
    /\ ~can_run /\ description = "Play"
    /\ frames["bg"].pc = "wait"
    /\ last.op = "next" /\ last.arg = 0
    /\ slider_value = 2 * Step

(* C24: between a pause and the resume after it the _Player thread makes   *)
(* at most one goto("next"), the one whose can_run.wait() had returned     *)
(* before the pause: once it is out of that call, asleep or waiting, it    *)
(* enters no other while the run signal stays cleared, however the two     *)
(* threads interleave.                                                     *)
C24_AtMostOneNextWhilePaused ==
    [][(/\ ~can_run /\ ~can_run'
        /\ frames["bg"].pc \in {"sleep", "wait", "dead"}) =>
          frames'["bg"].pc \in {"sleep", "wait", "dead"}]_vars

(* reached: paused by toggle_play while the thread is inside its next, at  *)
(* the record read of Recorder.goto                                        *)
C24_Witness ==
    /\ ~can_run /\ description = "Play"
    /\ last.op = "toggle_play"
    /\ frames["bg"].pc = "g_record"
    /\ frames["bg"].op = "next"

(* C25: whatever update_length (growing or shrinking), begin, end, next,   *)
(* prev and seek calls are made, the cursor lies in 0 .. Player.length *   *)
(* 0.1, Player.length the length update_length was last given; and an      *)
(* update_length below the cursor leaves the cursor at the new maximum.    *)
C25_CursorWithinLength ==
    /\ [](0 <= slider_value /\ slider_value <= length * Step)
    /\ [][(/\ last'.op = "draw" /\ frames' = frames
           /\ length' * Step < slider_value) =>
             slider_value' = length' * Step]_vars

(* reached: the log was reset and got one record again with the cursor    *)
(* further up, and draw() pulled the cursor down to the new maximum 0.1    *)
C25_Witness ==
    /\ last.op = "draw"
    /\ last.calls = <<Step>>
    /\ length = 1 /\ slider_value = Step
    /\ world.time = Step
    /\ Len(states) = 1

(* C26: a Recorder.goto the _Player thread runs for its next, interleaved  *)
(* with reset() or update() in the caller's thread, reads the log only at  *)
(* an index in 0 .. len(self.states) - 1: when it comes to                 *)
(* self.states[index], the log still has that index.                       *)
C26_PlaybackReadsInRange ==
    frames["bg"].pc = "g_record" =>
        /\ 0 <= frames["bg"].index
        /\ frames["bg"].index <= Len(states) - 1

(* C27: a Player.goto("next") of the caller and one of the _Player thread  *)
(* running at once leave the cursor where the two would leave it one after *)
(* the other: when both have computed their value and neither has assigned *)
(* it yet, one of the two values is the cursor two nexts on, so that the   *)
(* thread assigning last can leave it there.                               *)
C27_NoLostNext ==
    (\A p \in Threads : frames[p].pc = "p_assign" /\ frames[p].op = "next") =>
        \E p \in Threads :
            frames[p].target =
                NextTarget(NextTarget(slider_value, length), length)

(* C28: the frame loop of save_as comes to an end for every start, stop    *)
(* and step, step = 0 and negative step included: once the loop is         *)
(* entered, the for statement is eventually over.                          *)
C28_FrameLoopTerminates ==
    (frames["fg"].pc = "s_loop") ~> (frames["fg"].pc # "s_loop")

====
